---------------------------- MODULE Spec2Model ----------------------------
(***************************************************************************)
(* State-machine model of static/js/main.js (CC_Marketers client script). *)
(* Each component of the script (dropdowns and mobile menu, toasts,        *)
(* debounce, loading toggle, form validation, copy buttons, progress bars,  *)
(* flash messages) has its own specification over the shared variables;    *)
(* the variables of the other components stay at their initial values.     *)
(***************************************************************************)
EXTENDS Naturals, Integers, Sequences, FiniteSets, TLC

VARIABLES
    hasButton,      \* dropdown d contains a <button> (line 19)
    hasMenu,        \* dropdown d contains a panel element (line 20)
    active,         \* set of dropdowns carrying the 'active' class
    mmWired,        \* toggle and panel both exist (line 151)
    mmHasIcons,     \* .menu-open and .menu-close both exist in the toggle
    mmHidden,       \* panel carries the 'hidden' class
    openIconHidden, \* .menu-open carries 'hidden'
    closeIconHidden,\* .menu-close carries 'hidden'
    lastClick,      \* history: the last click and the state it found
    toasts,         \* every toast created so far, in creation order
    lastToastEv,    \* history: the last dismiss click / auto-dismiss timer
    dbTimers,       \* pending timers set by the debounced function
    dbTimeout,      \* the closure variable 'timeout' (line 323): a timer id
    dbNextId,       \* the id the next setTimeout returns
    dbInvoked,      \* history: every invocation of the wrapped function
    dbSince,        \* history: ms since the last call of the debounced function
    dbLastArgs,     \* history: the arguments of that call
    dbBursts,       \* history: number of bursts begun
    dbBurstLen,     \* history: number of calls in the latest burst
    elContent,      \* element.innerHTML
    elDisabled,     \* element.disabled
    elSlot,         \* element.dataset.originalContent
    elOriginal,     \* history: the content the element had before any call
    loadHist,       \* history: the last two loading calls and what they found
    vfField,        \* a field handed to validateField: type, name, required, value
    vfPw1,          \* the value of the document's password1 input, if there is one
    vfOut,          \* what validateField returned and the messages it showed
    fieldCfg,       \* per form field: type, name, required
    sharedParent,   \* the form's fields share one parent element
    fieldValue,     \* per form field: its current value
    fieldClasses,   \* per form field: its styling classes
    parentErr,      \* per parent element: the text of its .field-error, if any
    lastSubmit,     \* history: the last submit event, or the field last cleared
    copyExplicit,   \* the control carries data-copy in the served markup
    copyReferral,   \* the control is the first button beside a "ref/" input
    copyAttr,       \* the control carries data-copy now
    copyListener,   \* the control has the copy click listener
    copyTarget,     \* the element the copy control's data-copy selects exists
    copyContent,    \* the copy control's innerHTML
    copyWrites,     \* clipboard writes begun and not yet settled
    copyTimers,     \* pending feedback timers, each with its originalText
    copyNextId,     \* the id the next feedback timer gets
    copyClicks,     \* history: clicks on the copy control
    copyDone,       \* history: clipboard writes that succeeded
    lastCopyEv,     \* history: the last copy event and the state it found
    pbTarget,       \* the progress bar's data-progress attribute, if it has one
    pbWidth,        \* the progress bar's style.width
    pbTimers,       \* pending reveal timers, each with its targetWidth
    pbNextId,       \* the id the next reveal timer gets
    pbEvents,       \* history: observer entries delivered for the bar
    pbShown,        \* history: entries among them that were intersecting
    lastPbEv,       \* history: the last progress event
    flash,          \* the .django-message elements in the document, in order
    flashLoaded,    \* history: the .django-message elements the page came with
    flashStarted    \* initializeToasts has run

pageVars == <<hasButton, hasMenu, active, mmWired, mmHasIcons, mmHidden,
              openIconHidden, closeIconHidden, lastClick>>

toastVars == <<toasts, lastToastEv>>

debounceVars == <<dbTimers, dbTimeout, dbNextId, dbInvoked, dbSince,
                  dbLastArgs, dbBursts, dbBurstLen>>

loadingVars == <<elContent, elDisabled, elSlot, elOriginal, loadHist>>

validateVars == <<vfField, vfPw1, vfOut>>

formVars == <<fieldCfg, sharedParent, fieldValue, fieldClasses, parentErr,
              lastSubmit>>

copyWiring == <<copyExplicit, copyReferral, copyAttr, copyListener, copyTarget>>

copyVars == <<copyWiring, copyContent, copyWrites, copyTimers, copyNextId,
              copyClicks, copyDone, lastCopyEv>>

progressVars == <<pbTarget, pbWidth, pbTimers, pbNextId, pbEvents, pbShown,
                  lastPbEv>>

flashVars == <<flash, flashLoaded, flashStarted>>

vars == <<pageVars, toastVars, debounceVars, loadingVars, validateVars,
          formVars, copyVars, progressVars, flashVars>>

\* everything but the toasts
nonToastVars == <<pageVars, debounceVars, loadingVars, validateVars, formVars,
                  copyVars, progressVars, flashVars>>

-----------------------------------------------------------------------------
(* Bounds *)
NumDropdowns == 3
MaxToasts == 2          \* toasts created in one run
MaxIntersections == 3   \* observer entries delivered for the progress bar
TimeStep == 1000        \* granularity (ms) at which events fall between timers
ShortDuration == 1000   \* an explicit duration (ms) passed to showToast
MaxCalls == 4           \* calls of the debounced function in one run
MaxArg == 2             \* distinct argument values passed to it
DebounceWait == 2000    \* the wait (ms) given to debounce
MaxLen == 2             \* length of the field values enumerated in full
NumFields == 2          \* fields of the validated form
NumElements == 2        \* elements passed to showLoading / hideLoading

Min(S) == CHOOSE x \in S : \A y \in S : x <= y

-----------------------------------------------------------------------------
(* Toasts (lines 88-133) *)

Undefined == "undefined"
Null == "null"
NoTimer == -1

DefaultDuration == 3000     \* line 88
ToastKinds == {"success", "error", "warning", "info"}

\* lines 115-123; classes[type] || classes.info
getToastClasses(type) ==
    CASE type = "success" -> "border-green-200 text-green-800 bg-green-50"
      [] type = "error"   -> "border-red-200 text-red-800 bg-red-50"
      [] type = "warning" -> "border-yellow-200 text-yellow-800 bg-yellow-50"
      [] OTHER            -> "border-red-200 text-red-800 bg-red-50"

\* lines 125-133; icons[type] || icons.info
getToastIcon(type) ==
    CASE type = "success" -> "text-green-600 check-circle"
      [] type = "error"   -> "text-red-600 exclamation-circle"
      [] type = "warning" -> "text-yellow-600 exclamation-triangle"
      [] OTHER            -> "text-red-600 information-circle"

\* line 88: default parameters replace an undefined argument
DefaultArg(x, dflt) == IF x = Undefined THEN dflt ELSE x

\* a duration argument is <<ms>>, or <<>> when the caller passes none
DefaultMs(duration) == IF duration = <<>> THEN DefaultDuration ELSE duration[1]

\* lines 88-113: the toast appended to document.body, its timer scheduled
NewToast(message, type, duration) ==
    [message |-> message,
     type    |-> DefaultArg(type, "info"),
     classes |-> getToastClasses(DefaultArg(type, "info")),
     icon    |-> getToastIcon(DefaultArg(type, "info")),
     parent  |-> "body",
     timer   |-> DefaultMs(duration)]

showToast(ts, message, type, duration) ==
    Append(ts, NewToast(message, type, duration))

\* ChildNode.remove(): detaches the node; on a detached node it does nothing
Remove(parent) == Null

\* line 97: onclick="this.parentElement.parentElement.remove()"
DismissHandler(t) == [t EXCEPT !.parent = Remove(t.parent)]

\* lines 108-112: the auto-dismiss callback
AutoDismissKeeps(t) == [t EXCEPT !.timer = NoTimer]
AutoDismiss(t) ==
    [t EXCEPT !.parent = IF t.parent # Null THEN Remove(t.parent) ELSE t.parent,
              !.timer = NoTimer]

\* which toasts are in the document
InDocument(ts) == [i \in DOMAIN ts |-> ts[i].parent]

ToastsIdle ==
    /\ toasts = <<>>
    /\ lastToastEv = [kind |-> "none", i |-> 0, docBefore |-> <<>>]

ToastInputTypes == {"success", "debug", Undefined}
ToastInputDurations == {<<>>, <<ShortDuration>>}

\* window.CC_Marketers.showToast called by a page script
ShowToastCall(type, duration) ==
    /\ Len(toasts) < MaxToasts
    /\ toasts' = showToast(toasts, "Saved", type, duration)
    /\ lastToastEv' = [kind |-> "show", i |-> Len(toasts) + 1,
                       docBefore |-> InDocument(toasts)]
    /\ UNCHANGED nonToastVars

\* a click on toast i's dismiss control
ToastDismissClick(i) ==
    /\ i \in DOMAIN toasts
    /\ toasts' = [toasts EXCEPT ![i] = DismissHandler(@)]
    /\ lastToastEv' = [kind |-> "dismiss", i |-> i,
                       docBefore |-> InDocument(toasts)]
    /\ UNCHANGED nonToastVars

\* toast i's auto-dismiss timer fires
ToastTimerFire(i) ==
    /\ i \in DOMAIN toasts
    /\ toasts[i].timer = 0
    /\ toasts' = [toasts EXCEPT ![i] = AutoDismiss(@)]
    /\ lastToastEv' = [kind |-> "timer", i |-> i,
                       docBefore |-> InDocument(toasts)]
    /\ UNCHANGED nonToastVars

-----------------------------------------------------------------------------
(* debounce (lines 322-332) *)

Args == 1..MaxArg
NoId == 0
Never == -1

\* clearTimeout(id): cancels that timer if it is pending, else does nothing
clearTimeoutNoop(timers, id) == timers
clearTimeout(timers, id) == {t \in timers : t.id # id}

\* setTimeout(later, wait), 'later' closing over this call's args
setTimeout(timers, id, args, wait) ==
    timers \cup {[id |-> id, remaining |-> wait, args |-> args]}

DebounceIdle ==
    /\ dbTimers = {}
    /\ dbTimeout = NoId
    /\ dbNextId = 1
    /\ dbInvoked = <<>>
    /\ dbSince = Never
    /\ dbLastArgs = 0
    /\ dbBursts = 0
    /\ dbBurstLen = 0

\* lines 324-331: one call of executedFunction(...args)
DebouncedCall(a) ==
    /\ dbNextId <= MaxCalls
    /\ \A t \in dbTimers : t.remaining > 0
    /\ dbTimers' = setTimeout(clearTimeout(dbTimers, dbTimeout),
                              dbNextId, a, DebounceWait)
    /\ dbTimeout' = dbNextId
    /\ dbNextId' = dbNextId + 1
    /\ dbLastArgs' = a
    /\ dbBursts' = IF dbSince = Never \/ dbSince >= DebounceWait
                     THEN dbBursts + 1 ELSE dbBursts
    /\ dbBurstLen' = IF dbSince = Never \/ dbSince >= DebounceWait
                       THEN 1 ELSE dbBurstLen + 1
    /\ dbSince' = 0
    /\ UNCHANGED dbInvoked

\* lines 325-328: the callback 'later' of timer t runs
DebounceTimerFire(t) ==
    /\ t.remaining = 0
    /\ dbTimers' = clearTimeout(dbTimers \ {t}, dbTimeout)
    /\ dbInvoked' = Append(dbInvoked, [args |-> t.args, since |-> dbSince,
                                       last |-> dbLastArgs])
    /\ UNCHANGED <<dbTimeout, dbNextId, dbSince, dbLastArgs, dbBursts, dbBurstLen>>

-----------------------------------------------------------------------------
(* showLoading / hideLoading (lines 335-349) *)

Elements == 1..NumElements
Spinner == "<div class=\"spinner\"></div>"
Contents == {"", "Save", "<b>Go</b>", Spinner}

\* truthiness of a string-or-undefined value (line 344)
Truthy(v) == v # Undefined /\ v # ""

\* the elements as the other components' runs leave them
LoadingQuiet ==
    /\ elContent = [e \in Elements |-> "Save"]
    /\ elDisabled = [e \in Elements |-> FALSE]
    /\ elSlot = [e \in Elements |-> Undefined]
    /\ elOriginal = elContent
    /\ loadHist = <<>>

LoadingIdle ==
    /\ elContent \in [Elements -> Contents \ {Spinner}]
    /\ elDisabled \in [Elements -> BOOLEAN]
    /\ elSlot = [e \in Elements |-> Undefined]
    /\ elOriginal = elContent
    /\ loadHist = <<>>

Found(op, e) == [op |-> op, el |-> e, content |-> elContent[e],
                 disabled |-> elDisabled[e], slot |-> elSlot[e]]

Remember(h, x) == IF h = <<>> THEN <<x>> ELSE <<h[Len(h)], x>>

\* lines 335-340
showLoading(e) ==
    /\ elSlot' = [elSlot EXCEPT ![e] = elContent[e]]
    /\ elContent' = [elContent EXCEPT ![e] = Spinner]
    /\ elDisabled' = [elDisabled EXCEPT ![e] = TRUE]
    /\ loadHist' = Remember(loadHist, Found("show", e))
    /\ UNCHANGED elOriginal

\* lines 342-349
hideLoading(e) ==
    /\ IF Truthy(elSlot[e])
         THEN /\ elContent' = [elContent EXCEPT ![e] = elSlot[e]]
              /\ elSlot' = [elSlot EXCEPT ![e] = Undefined]
         ELSE UNCHANGED <<elContent, elSlot>>
    /\ elDisabled' = [elDisabled EXCEPT ![e] = FALSE]
    /\ loadHist' = Remember(loadHist, Found("hide", e))
    /\ UNCHANGED elOriginal

-----------------------------------------------------------------------------
(* validateField (lines 205-250, 275-283) *)
(* A string is a sequence of one-character strings.                        *)

Digits == {"0", "1", "2", "3", "4", "5", "6", "7", "8", "9"}

IsSpace(c) == c = " "

RECURSIVE TrimStart(_)
TrimStart(s) ==
    IF s # <<>> /\ IsSpace(Head(s)) THEN TrimStart(Tail(s)) ELSE s

RECURSIVE TrimEnd(_)
TrimEnd(s) ==
    IF s # <<>> /\ IsSpace(s[Len(s)])
      THEN TrimEnd(SubSeq(s, 1, Len(s) - 1)) ELSE s

\* String.prototype.trim (line 206)
TrimNothing(s) == s
Trim(s) == TrimEnd(TrimStart(s))

\* [^\s@]+ on s[from..to]
NoSpaceNoAt(s, from, to) ==
    /\ from <= to
    /\ \A k \in from..to : ~IsSpace(s[k]) /\ s[k] # "@"

\* line 276: /^[^\s@]+@[^\s@]+\.[^\s@]+$/
isValidEmail(email) ==
    \E i, j \in 1..Len(email) :
        /\ email[i] = "@" /\ email[j] = "."
        /\ NoSpaceNoAt(email, 1, i - 1)
        /\ NoSpaceNoAt(email, i + 1, j - 1)
        /\ NoSpaceNoAt(email, j + 1, Len(email))

\* phone.replace(/\s/g, '') (line 282)
RECURSIVE StripSpaces(_)
StripSpaces(s) ==
    IF s = <<>> THEN <<>>
    ELSE IF IsSpace(Head(s)) THEN StripSpaces(Tail(s))
    ELSE <<Head(s)>> \o StripSpaces(Tail(s))

\* line 281: /^[\+]?[1-9][\d]{0,15}$/
MatchesPhone(s) ==
    LET d == IF s # <<>> /\ Head(s) = "+" THEN Tail(s) ELSE s
    IN  /\ Len(d) >= 1 /\ Len(d) <= 16
        /\ d[1] \in Digits \ {"0"}
        /\ \A k \in 2..Len(d) : d[k] \in Digits

isValidPhone(phone) == MatchesPhone(StripSpaces(phone))

MsgRequired == "This field is required"
MsgEmail == "Please enter a valid email address"
MsgPassword == "Password must be at least 8 characters long"
MsgPhone == "Please enter a valid phone number"
MsgMismatch == "Passwords do not match"

MinPasswordLength == 8      \* line 226

Invalid(message) == [ok |-> FALSE, shown |-> <<message>>]
Valid == [ok |-> TRUE, shown |-> <<>>]

\* lines 217-237: the switch on field.type; <<>> when no case returns
TypeRule(field, value) ==
    CASE field.type = "email" /\ ~isValidEmail(value) -> <<MsgEmail>>
      [] field.type = "password" /\ field.name = "password1"
            /\ Len(value) < MinPasswordLength -> <<MsgPassword>>
      [] field.type = "tel" /\ ~isValidPhone(value) -> <<MsgPhone>>
      [] OTHER -> <<>>

\* lines 205-250: the return value of validateField and the messages handed to
\* showFieldError; pw1 is <<>> when the document has no input named
\* password1, else <<its value>> (line 241)
validateField(field, pw1) ==
    LET value == Trim(field.value)
    IN  IF field.required /\ value = <<>> THEN Invalid(MsgRequired)
        ELSE IF value # <<>>
          THEN IF TypeRule(field, value) # <<>>
                 THEN Invalid(TypeRule(field, value)[1])
               ELSE IF /\ field.name = "password2"
                       /\ pw1 # <<>> /\ value # pw1[1]
                 THEN Invalid(MsgMismatch)
               ELSE Valid
        ELSE Valid

\* every string over {" ", "a"} of length at most n
RECURSIVE Strings(_)
Strings(n) ==
    IF n = 0 THEN {<<>>}
    ELSE Strings(n - 1)
           \cup {s \o <<c>> : s \in {t \in Strings(n - 1) : Len(t) = n - 1},
                              c \in {" ", "a"}}

Samples ==
    { <<"a", "@", "b", ".", "c">>, <<"a", "@", "b">>, <<"a", " ", "@", "b", ".", "c">>,
      <<"+", "1", "2">>, <<"1", " ", "2">>, <<"0", "1", "2">>,
      <<"a", "b", "c", "1", "2", "3", "4", "5">>,
      <<"a", "b", "c", "1", "2", "3", "4", "5", " ">>,
      <<"a", "b", "c", "1", "2", "3", "4">> }

FieldValues == Strings(MaxLen) \cup Samples
FieldTypes == {"text", "email", "password", "tel"}
FieldNames == {"password1", "password2", "phone"}

NotCalled == [ok |-> TRUE, shown |-> <<"not called">>]

ValidateQuiet ==
    /\ vfField = [type |-> "text", name |-> "phone", required |-> FALSE,
                  value |-> <<>>]
    /\ vfPw1 = <<>>
    /\ vfOut = NotCalled

ValidateIdle ==
    /\ vfField \in [type : FieldTypes, name : FieldNames, required : BOOLEAN,
                    value : FieldValues]
    /\ vfPw1 \in {<<>>} \cup {<<v>> : v \in FieldValues}
    /\ vfOut = NotCalled

\* validateField(field) is called on the field
ValidateCall ==
    /\ vfOut = NotCalled
    /\ vfOut' = validateField(vfField, vfPw1)
    /\ UNCHANGED <<vfField, vfPw1>>

-----------------------------------------------------------------------------
(* Form validation (lines 175-203, 252-273) *)

Fields == 1..NumFields
NoErr == "no .field-error"

\* field.parentElement
ParentOf(f) == IF sharedParent THEN 1 ELSE f

\* the field object validateField reads (lines 206-208)
FieldOf(f) == [type |-> fieldCfg[f].type, name |-> fieldCfg[f].name,
               required |-> fieldCfg[f].required, value |-> fieldValue[f]]

\* line 241: document.querySelector('input[name="password1"]')
Password1 ==
    LET named == {f \in Fields : fieldCfg[f].name = "password1"}
    IN  IF named = {} THEN <<>> ELSE <<fieldValue[Min(named)]>>

\* lines 265-273, on dom = [classes, err]
clearFieldError(dom, f) ==
    [classes |-> [dom.classes EXCEPT ![f] =
                    (@ \ {"border-red-500", "ring-red-500"}) \cup {"border-red-300"}],
     err |-> [dom.err EXCEPT ![ParentOf(f)] = NoErr]]

\* lines 252-263
showFieldError(dom, f, message) ==
    [classes |-> [dom.classes EXCEPT ![f] =
                    (@ \cup {"border-red-500", "ring-red-500"}) \ {"border-red-300"}],
     err |-> [dom.err EXCEPT ![ParentOf(f)] = message]]

\* lines 205-250: what validateField(field) does to the document
ValidateFieldDom(dom, f) ==
    LET r == validateField(FieldOf(f), Password1)
    IN  IF r.ok THEN clearFieldError(dom, f)
        ELSE showFieldError(clearFieldError(dom, f), f, r.shown[1])

\* lines 189-195: inputs.forEach over the fields fs, from acc
RECURSIVE SubmitLoopStopsAtFailure(_, _)
SubmitLoopStopsAtFailure(acc, fs) ==
    IF fs = <<>> \/ ~acc.isValid THEN acc
    ELSE SubmitLoopStopsAtFailure(
            [dom |-> ValidateFieldDom(acc.dom, Head(fs)),
             isValid |-> acc.isValid
                           /\ validateField(FieldOf(Head(fs)), Password1).ok,
             validated |-> Append(acc.validated, Head(fs))],
            Tail(fs))

RECURSIVE SubmitLoop(_, _)
SubmitLoop(acc, fs) ==
    IF fs = <<>> THEN acc
    ELSE SubmitLoop(
            [dom |-> ValidateFieldDom(acc.dom, Head(fs)),
             isValid |-> IF ~validateField(FieldOf(Head(fs)), Password1).ok
                           THEN FALSE ELSE acc.isValid,
             validated |-> Append(acc.validated, Head(fs))],
            Tail(fs))

\* line 179: the form's inputs, in document order
Inputs == [f \in Fields |-> f]

MsgAggregate == "Please correct the errors below"

\* lines 197-200
SubmitToasts(ts, isValid) ==
    IF ~isValid THEN showToast(ts, MsgAggregate, "error", <<>>) ELSE ts

\* line 198: e.preventDefault() is called
DefaultPrevented(isValid) == ~isValid

CurrentDom == [classes |-> fieldClasses, err |-> parentErr]

NoSubmit == [n |-> 0, validated |-> <<>>, prevented |-> FALSE, toastsBefore |-> 0,
             cleared |-> 0]

\* lines 188-201: the form's submit listener
Submit ==
    /\ Len(toasts) < MaxToasts
    /\ LET r == SubmitLoop([dom |-> CurrentDom, isValid |-> TRUE,
                            validated |-> <<>>], Inputs)
       IN  /\ fieldClasses' = r.dom.classes
           /\ parentErr' = r.dom.err
           /\ toasts' = SubmitToasts(toasts, r.isValid)
           /\ lastSubmit' = [n |-> 1, validated |-> r.validated,
                             prevented |-> DefaultPrevented(r.isValid),
                             toastsBefore |-> Len(toasts), cleared |-> 0]
    /\ UNCHANGED <<fieldCfg, sharedParent, fieldValue, lastToastEv>>

\* line 183: blur on field f
Blur(f) ==
    /\ fieldClasses' = ValidateFieldDom(CurrentDom, f).classes
    /\ parentErr' = ValidateFieldDom(CurrentDom, f).err
    /\ lastSubmit' = NoSubmit
    /\ UNCHANGED <<fieldCfg, sharedParent, fieldValue, toastVars>>

\* line 184: the user changes field f's value to v
InputEvent(f, v) ==
    /\ fieldValue' = [fieldValue EXCEPT ![f] = v]
    /\ fieldClasses' = clearFieldError(CurrentDom, f).classes
    /\ parentErr' = clearFieldError(CurrentDom, f).err
    /\ lastSubmit' = [NoSubmit EXCEPT !.cleared = f]
    /\ UNCHANGED <<fieldCfg, sharedParent, toastVars>>

FieldKinds ==
    { [type |-> "email", name |-> "email", required |-> TRUE],
      [type |-> "password", name |-> "password1", required |-> TRUE],
      [type |-> "password", name |-> "password2", required |-> FALSE],
      [type |-> "tel", name |-> "phone", required |-> FALSE] }

FormValues ==
    { <<>>, <<"a", "@", "b", ".", "c">>,
      <<"a", "b", "c", "1", "2", "3", "4", "5">> }

FormQuiet ==
    /\ fieldCfg = [f \in Fields |-> [type |-> "text", name |-> "phone",
                                     required |-> FALSE]]
    /\ sharedParent = FALSE
    /\ fieldValue = [f \in Fields |-> <<>>]
    /\ fieldClasses = [f \in Fields |-> {"border-red-300"}]
    /\ parentErr = [f \in Fields |-> NoErr]
    /\ lastSubmit = NoSubmit

FormIdle ==
    /\ fieldCfg \in [Fields -> FieldKinds]
    /\ sharedParent \in BOOLEAN
    /\ fieldValue = [f \in Fields |-> <<>>]
    /\ fieldClasses = [f \in Fields |-> {"border-red-300"}]
    /\ parentErr = [f \in Fields |-> NoErr]
    /\ lastSubmit = NoSubmit

-----------------------------------------------------------------------------
(* Copy control (lines 48-85) *)

CopyLabel == "Copy"
CopiedMarkup == "<svg class=\"w-4 h-4\"></svg><span>Copied!</span>"
FeedbackMs == 2000      \* line 69

\* line 49: the listeners go to the elements that carry data-copy when the
\* static list is taken, before lines 77-84 run
ListenerAttached(explicit) == explicit

\* lines 77-84: the first button beside a "ref/" input gets data-copy unless
\* it has one
AttrAfterWiring(explicit, referral) == explicit \/ referral

NoCopyEv == [kind |-> "none", toasts |-> 0, content |-> CopyLabel,
             timers |-> {}, writes |-> 0]

\* the event of the given kind and the state it finds
CopyEv(kind) == [kind |-> kind, toasts |-> Len(toasts), content |-> copyContent,
                 timers |-> {t.id : t \in copyTimers}, writes |-> copyWrites]

CopyQuiet ==
    /\ copyExplicit = TRUE
    /\ copyReferral = FALSE
    /\ copyAttr = TRUE
    /\ copyListener = TRUE
    /\ copyTarget = TRUE
    /\ copyContent = CopyLabel
    /\ copyWrites = 0
    /\ copyTimers = {}
    /\ copyNextId = 1
    /\ copyClicks = 0
    /\ copyDone = 0
    /\ lastCopyEv = NoCopyEv

\* the control after initializeCopyButtons: an explicit selector may select
\* nothing; the selector set at line 82 selects the "ref/" input
CopyIdle ==
    /\ copyExplicit \in BOOLEAN
    /\ copyReferral \in BOOLEAN
    /\ copyListener = ListenerAttached(copyExplicit)
    /\ copyAttr = AttrAfterWiring(copyExplicit, copyReferral)
    /\ copyTarget \in (IF copyExplicit THEN BOOLEAN ELSE {copyReferral})
    /\ copyContent = CopyLabel
    /\ copyWrites = 0
    /\ copyTimers = {}
    /\ copyNextId = 1
    /\ copyClicks = 0
    /\ copyDone = 0
    /\ lastCopyEv = NoCopyEv

\* line 61
ResolveToastDefaultKind(ts) == showToast(ts, "Copied to clipboard!", Undefined, <<>>)
ResolveToast(ts) == showToast(ts, "Copied to clipboard!", "success", <<>>)

\* line 71
RejectToastTwice(ts) ==
    showToast(showToast(ts, "Failed to copy to clipboard", "error", <<>>),
              "Failed to copy to clipboard", "error", <<>>)
RejectToast(ts) == showToast(ts, "Failed to copy to clipboard", "error", <<>>)

\* lines 52-60: a click on the control; its listener, if it has one, runs up
\* to the await
CopyClick ==
    /\ copyClicks < MaxToasts
    /\ copyClicks' = copyClicks + 1
    /\ copyWrites' = IF copyListener /\ copyTarget THEN copyWrites + 1
                     ELSE copyWrites
    /\ lastCopyEv' = CopyEv("click")
    /\ UNCHANGED <<copyWiring, copyContent, copyTimers, copyNextId, copyDone,
                   toastVars>>

\* lines 61-69: the clipboard write succeeded
ClipboardResolved ==
    /\ copyWrites > 0
    /\ copyWrites' = copyWrites - 1
    /\ toasts' = ResolveToast(toasts)
    /\ copyTimers' = copyTimers \cup {[id |-> copyNextId, remaining |-> FeedbackMs,
                                       originalText |-> copyContent]}
    /\ copyContent' = CopiedMarkup
    /\ copyNextId' = copyNextId + 1
    /\ copyDone' = copyDone + 1
    /\ lastCopyEv' = CopyEv("resolve")
    /\ UNCHANGED <<copyWiring, copyClicks, lastToastEv>>

\* lines 70-72: the clipboard write was rejected
ClipboardRejected ==
    /\ copyWrites > 0
    /\ copyWrites' = copyWrites - 1
    /\ toasts' = RejectToast(toasts)
    /\ lastCopyEv' = CopyEv("reject")
    /\ UNCHANGED <<copyWiring, copyContent, copyTimers, copyNextId, copyClicks,
                   copyDone, lastToastEv>>

\* lines 67-69: feedback timer t fires; timers due together fire in the order
\* they were set
CopyTimerFire(t) ==
    /\ t.remaining = 0
    /\ \A u \in copyTimers : u.remaining = 0 => t.id <= u.id
    /\ copyContent' = t.originalText
    /\ copyTimers' = copyTimers \ {t}
    /\ lastCopyEv' = CopyEv("timer")
    /\ UNCHANGED <<copyWiring, copyWrites, copyNextId, copyClicks, copyDone,
                   toastVars>>

-----------------------------------------------------------------------------
(* Progress bars (lines 286-304): one .progress-fill element *)

RevealMs == 100         \* line 298

\* data-progress: absent, or present with a string of digits (possibly empty)
ProgressTargets == {<<>>, <<<<>>>>, <<<<"7", "5">>>>, <<<<"1", "0", "0">>>>}

\* line 293: progressBar.dataset.progress || '0'
TargetWidthNoDefault(attr) == IF attr = <<>> THEN <<"undefined">> ELSE attr[1]
TargetWidth(attr) == IF attr = <<>> \/ attr[1] = <<>> THEN <<"0">> ELSE attr[1]

\* line 297: targetWidth + '%'
Percent(w) == w \o <<"%">>

NoPbEv == [kind |-> "none", isIntersecting |-> FALSE]

ProgressQuiet ==
    /\ pbTarget = <<>>
    /\ pbWidth = <<>>
    /\ pbTimers = {}
    /\ pbNextId = 1
    /\ pbEvents = 0
    /\ pbShown = 0
    /\ lastPbEv = NoPbEv

ProgressIdle ==
    /\ pbTarget \in ProgressTargets
    /\ pbWidth = <<>>
    /\ pbTimers = {}
    /\ pbNextId = 1
    /\ pbEvents = 0
    /\ pbShown = 0
    /\ lastPbEv = NoPbEv

\* lines 289-300: the observer's callback gets an entry for the bar
Intersection(isIntersecting) ==
    /\ pbEvents < MaxIntersections
    /\ pbEvents' = pbEvents + 1
    /\ lastPbEv' = [kind |-> "entry", isIntersecting |-> isIntersecting]
    /\ IF isIntersecting
         THEN /\ pbWidth' = Percent(<<"0">>)
              /\ pbTimers' = pbTimers \cup
                    {[id |-> pbNextId, remaining |-> RevealMs,
                      targetWidth |-> TargetWidth(pbTarget)]}
              /\ pbNextId' = pbNextId + 1
              /\ pbShown' = pbShown + 1
         ELSE UNCHANGED <<pbWidth, pbTimers, pbNextId, pbShown>>
    /\ UNCHANGED pbTarget

\* lines 296-298: reveal timer t fires; timers due together fire in the order
\* they were set
RevealTimerFire(t) ==
    /\ t.remaining = 0
    /\ \A u \in pbTimers : u.remaining = 0 => t.id <= u.id
    /\ pbWidth' = Percent(t.targetWidth)
    /\ pbTimers' = pbTimers \ {t}
    /\ lastPbEv' = [kind |-> "timer", isIntersecting |-> FALSE]
    /\ UNCHANGED <<pbTarget, pbNextId, pbEvents, pbShown>>

-----------------------------------------------------------------------------
(* Flash messages (lines 135-144) *)
(* A text is a sequence of pieces: runs of plain characters and tags.      *)

Tags == {"<b>", "</b>"}

\* lines 93-96: the message is interpolated into innerHTML, so the parser
\* takes its tags as markup; what the toast's span then shows is the rest
IsCharacterData(piece) == piece \notin Tags
ShownText(html) == SelectSeq(html, IsCharacterData)

\* data-level: absent, or present with one of these values
FlashLevels == {<<>>, <<"success">>, <<"error">>, <<"warning">>, <<"info">>,
                <<"debug">>}

\* the text content of a .django-message element
FlashTexts == {<<"Saved">>, <<"<b>", "Saved", "</b>">>}

FlashElements == [level : FlashLevels, text : FlashTexts]

\* line 139: message.dataset.level
DatasetLevel(el) == IF el.level = <<>> THEN Undefined ELSE el.level[1]

\* lines 138-143: djangoMessages.forEach over the elements msgs, from ts
RECURSIVE ConvertMessages(_, _)
ConvertMessages(ts, msgs) ==
    IF msgs = <<>> THEN ts
    ELSE ConvertMessages(
            showToast(ts, Head(msgs).text, DatasetLevel(Head(msgs)), <<>>),
            Tail(msgs))

FlashQuiet ==
    /\ flash = <<>>
    /\ flashLoaded = <<>>
    /\ flashStarted = TRUE

\* the page as served, before DOMContentLoaded
FlashIdle ==
    /\ flash \in UNION {[1..n -> FlashElements] : n \in 0..MaxToasts}
    /\ flashLoaded = flash
    /\ flashStarted = FALSE

\* lines 135-144; every element of the list is removed at line 142
initializeToasts ==
    /\ ~flashStarted
    /\ flashStarted' = TRUE
    /\ toasts' = ConvertMessages(toasts, flash)
    /\ flash' = <<>>
    /\ UNCHANGED <<flashLoaded, lastToastEv>>

-----------------------------------------------------------------------------
(* Time: every pending timer counts down; a due timer fires before time moves *)

PendingTimers ==
    {toasts[i].timer : i \in {j \in DOMAIN toasts : toasts[j].timer # NoTimer}}
        \cup {t.remaining : t \in dbTimers}
        \cup {t.remaining : t \in copyTimers}
        \cup {t.remaining : t \in pbTimers}

\* time can pass by TimeStep, or up to the next timer that is due
Delays ==
    IF PendingTimers = {} THEN {}
    ELSE {d \in {TimeStep, Min(PendingTimers)} : d > 0 /\ d <= Min(PendingTimers)}

Elapse(t, d) == IF t = NoTimer THEN NoTimer ELSE t - d

AdvanceToasts(d) ==
    toasts' = [i \in DOMAIN toasts |->
                  [toasts[i] EXCEPT !.timer = Elapse(@, d)]]

AdvanceCopy(d) ==
    copyTimers' = {[t EXCEPT !.remaining = @ - d] : t \in copyTimers}

AdvanceProgress(d) ==
    pbTimers' = {[t EXCEPT !.remaining = @ - d] : t \in pbTimers}

AdvanceDebounce(d) ==
    /\ dbTimers' = {[t EXCEPT !.remaining = @ - d] : t \in dbTimers}
    /\ dbSince' = IF dbSince = Never THEN Never
                  ELSE IF dbSince + d > DebounceWait THEN DebounceWait
                  ELSE dbSince + d

-----------------------------------------------------------------------------
(* Page: dropdowns (lines 15-45) and mobile menu (lines 147-172) *)

Dropdowns == 1..NumDropdowns
NoDD == 0

\* Where a click lands: inside which .group container (if any), whether inside
\* that container's first button, and whether inside the mobile-menu toggle,
\* inside the mobile-menu panel, or in neither.
ClickTargets ==
    { t \in [dd : Dropdowns \cup {NoDD}, onButton : BOOLEAN,
             mm : {"toggle", "panel", "none"}] :
        /\ t.onButton => (t.dd # NoDD /\ hasButton[t.dd])
        /\ t.mm = "toggle" => t.dd = NoDD
        /\ t.mm # "none" => mmWired }

\* line 22: the click listener is attached only when both exist
Wired(d) == hasButton[d] /\ hasMenu[d]

\* lines 27-31
CloseOthersKeepAll(act, d) == act
CloseOthers(act, d) == act \cap {d}

\* line 34: classList.toggle('active')
ToggleActive(act, d) == IF d \in act THEN act \ {d} ELSE act \cup {d}

\* lines 23-35: the trigger's click listener
TriggerHandler(act, d) == ToggleActive(CloseOthers(act, d), d)

\* lines 40-44: the document-level listener of initializeDropdowns
DocumentCloseNone(act) == act
DocumentCloseAll(act) == {}

\* line 24: stopPropagation() in a wired trigger's listener keeps the click
\* from reaching the document-level listeners
ReachesDocument(t) == ~(t.onButton /\ Wired(t.dd))

\* line 155 in the toggle's click listener: classList.toggle('hidden')
TogglePanel(hidden) == ~hidden

\* lines 157-162 in the toggle's click listener: both icons flip, when both
\* exist
ToggleIcons ==
    IF mmHasIcons
      THEN /\ openIconHidden' = ~openIconHidden
           /\ closeIconHidden' = ~closeIconHidden
      ELSE UNCHANGED <<openIconHidden, closeIconHidden>>

\* line 167: neither the toggle nor the panel contains the target
OutsideMenuButPanel(t) == t.mm # "panel"
OutsideMenu(t) == t.mm = "none"

\* the icon pair shows what the panel is: open-state icon with the panel
\* hidden, close-state icon with the panel visible
IconsAgree(hidden, openHidden, closeHidden) ==
    openHidden = ~hidden /\ closeHidden = hidden

\* One click, dispatched along its path: the listener on the element clicked
\* (trigger or toggle) first, then the document-level listeners.
Click(t) ==
    /\ lastClick' = [target |-> t, before |-> active, hiddenBefore |-> mmHidden,
                     agreeBefore |-> IconsAgree(mmHidden, openIconHidden,
                                                closeIconHidden),
                     n |-> IF lastClick.n < 2 THEN lastClick.n + 1 ELSE 2]
    /\ active' =
         LET a1 == IF t.onButton /\ Wired(t.dd)
                     THEN TriggerHandler(active, t.dd) ELSE active
         IN  IF ReachesDocument(t) THEN DocumentCloseAll(a1) ELSE a1
    \* lines 152-163, then lines 166-170
    /\ mmHidden' =
         LET h1 == IF mmWired /\ t.mm = "toggle"
                     THEN TogglePanel(mmHidden) ELSE mmHidden
         IN  IF mmWired /\ ReachesDocument(t) /\ OutsideMenu(t) THEN TRUE ELSE h1
    /\ IF mmWired /\ t.mm = "toggle"
         THEN ToggleIcons
         ELSE UNCHANGED <<openIconHidden, closeIconHidden>>
    /\ UNCHANGED <<hasButton, hasMenu, mmWired, mmHasIcons>>
    /\ UNCHANGED <<toastVars, debounceVars, loadingVars, validateVars, formVars,
                   copyVars, progressVars, flashVars>>

NoClick == [target |-> [dd |-> NoDD, onButton |-> FALSE, mm |-> "none"],
            before |-> {}, hiddenBefore |-> TRUE, agreeBefore |-> TRUE, n |-> 0]

InitPage ==
    /\ ToastsIdle /\ DebounceIdle /\ LoadingQuiet /\ ValidateQuiet /\ FormQuiet /\ CopyQuiet /\ ProgressQuiet /\ FlashQuiet
    /\ hasButton \in [Dropdowns -> BOOLEAN]
    /\ hasMenu \in [Dropdowns -> BOOLEAN]
    /\ active \in {s \in SUBSET Dropdowns : Cardinality(s) <= 1}
    /\ mmWired \in BOOLEAN
    /\ mmHasIcons \in BOOLEAN
    /\ mmHidden = TRUE
    /\ openIconHidden = FALSE
    /\ closeIconHidden = TRUE
    /\ lastClick = NoClick

NextPage == \E t \in ClickTargets : Click(t)

PageSpec == InitPage /\ [][NextPage]_vars

PageIdle ==
    /\ hasButton = [d \in Dropdowns |-> FALSE]
    /\ hasMenu = [d \in Dropdowns |-> FALSE]
    /\ active = {}
    /\ mmWired = FALSE
    /\ mmHasIcons = FALSE
    /\ mmHidden = TRUE
    /\ openIconHidden = FALSE
    /\ closeIconHidden = TRUE
    /\ lastClick = NoClick

-----------------------------------------------------------------------------
(* Toast specification *)

\* time passes: every pending timer counts down
Advance ==
    \E d \in Delays :
        /\ AdvanceToasts(d)
        /\ AdvanceDebounce(d)
        /\ AdvanceCopy(d)
        /\ UNCHANGED <<lastToastEv, dbTimeout, dbNextId, dbInvoked, dbLastArgs,
                       dbBursts, dbBurstLen>>
        /\ UNCHANGED <<copyWiring, copyContent, copyWrites, copyNextId,
                       copyClicks, copyDone, lastCopyEv>>
        /\ AdvanceProgress(d)
        /\ UNCHANGED <<pbTarget, pbWidth, pbNextId, pbEvents, pbShown, lastPbEv>>
        /\ UNCHANGED <<pageVars, loadingVars, validateVars, formVars, flashVars>>

InitToast == PageIdle /\ ToastsIdle /\ DebounceIdle /\ LoadingQuiet /\ ValidateQuiet /\ FormQuiet /\ CopyQuiet /\ ProgressQuiet /\ FlashQuiet

NextToast ==
    \/ \E type \in ToastInputTypes, duration \in ToastInputDurations :
            ShowToastCall(type, duration)
    \/ \E i \in 1..MaxToasts : ToastDismissClick(i)
    \/ \E i \in 1..MaxToasts : ToastTimerFire(i)
    \/ Advance

\* a scheduled timer always fires, and time does not stop
ToastFairness ==
    /\ WF_vars(Advance)
    /\ \A i \in 1..MaxToasts : WF_vars(ToastTimerFire(i))

ToastSpec == InitToast /\ [][NextToast]_vars /\ ToastFairness

-----------------------------------------------------------------------------
(* Progress specification *)

OutsideProgress == <<pageVars, toastVars, debounceVars, loadingVars,
                     validateVars, formVars, copyVars, flashVars>>

IntersectionStep ==
    \E b \in BOOLEAN : Intersection(b) /\ UNCHANGED OutsideProgress

RevealFireStep ==
    \E t \in pbTimers : RevealTimerFire(t) /\ UNCHANGED OutsideProgress

InitProgress ==
    PageIdle /\ ToastsIdle /\ DebounceIdle /\ LoadingQuiet /\ ValidateQuiet
        /\ FormQuiet /\ CopyQuiet /\ ProgressIdle /\ FlashQuiet

NextProgress == IntersectionStep \/ RevealFireStep \/ Advance

ProgressSpec == InitProgress /\ [][NextProgress]_vars

-----------------------------------------------------------------------------
(* Flash specification *)

InitializeToastsStep ==
    initializeToasts /\ UNCHANGED <<pageVars, debounceVars, loadingVars,
                                    validateVars, formVars, copyVars,
                                    progressVars>>

InitFlash ==
    PageIdle /\ ToastsIdle /\ DebounceIdle /\ LoadingQuiet /\ ValidateQuiet
        /\ FormQuiet /\ CopyQuiet /\ ProgressQuiet /\ FlashIdle

NextFlash ==
    \/ InitializeToastsStep
    \/ \E i \in 1..MaxToasts : ToastDismissClick(i)
    \/ \E i \in 1..MaxToasts : ToastTimerFire(i)
    \/ Advance

FlashSpec == InitFlash /\ [][NextFlash]_vars

-----------------------------------------------------------------------------
\* C1: with distinct containers A and B that each have a trigger and a panel,
\* a click on A's trigger that finds B open and A closed leaves B closed and A
\* open; and, starting with at most one dropdown open, no sequence of clicks
\* reaches a state with two dropdowns open.
C1_MutualExclusion ==
    /\ Cardinality(active) <= 1
    /\ \A a, b \in Dropdowns :
         ( /\ a # b /\ Wired(a) /\ Wired(b)
           /\ lastClick.n > 0
           /\ lastClick.target.onButton /\ lastClick.target.dd = a
           /\ b \in lastClick.before /\ a \notin lastClick.before )
         => (b \notin active /\ a \in active)

C1_Witness ==
    \E a, b \in Dropdowns :
        /\ a # b /\ Wired(a) /\ Wired(b)
        /\ lastClick.n > 0
        /\ lastClick.target.onButton /\ lastClick.target.dd = a
        /\ b \in lastClick.before /\ a \notin lastClick.before
        /\ active = {a}

\* C2: a click whose target is outside every dropdown container leaves every
\* dropdown container closed, whatever was open before.
C2_OutsideClickClosesAll ==
    (lastClick.n > 0 /\ lastClick.target.dd = NoDD) => active = {}

C2_Witness ==
    /\ lastClick.n > 0 /\ lastClick.target.dd = NoDD
    /\ lastClick.before # {} /\ active = {}

-----------------------------------------------------------------------------
(* Debounce specification *)

DebounceCallStep ==
    \E a \in Args :
        DebouncedCall(a) /\ UNCHANGED <<pageVars, toastVars, loadingVars, validateVars, formVars,
                         copyVars, progressVars, flashVars>>

DebounceFireStep ==
    \E t \in dbTimers :
        DebounceTimerFire(t) /\ UNCHANGED <<pageVars, toastVars, loadingVars, validateVars, formVars,
                         copyVars, progressVars, flashVars>>

InitDebounce == PageIdle /\ ToastsIdle /\ DebounceIdle /\ LoadingQuiet /\ ValidateQuiet /\ FormQuiet /\ CopyQuiet /\ ProgressQuiet /\ FlashQuiet

NextDebounce == DebounceCallStep \/ DebounceFireStep \/ Advance

DebounceSpec == InitDebounce /\ [][NextDebounce]_vars

-----------------------------------------------------------------------------
(* Loading specification *)

ShowLoadingCall ==
    \E e \in Elements :
        showLoading(e) /\ UNCHANGED <<pageVars, toastVars, debounceVars, validateVars,
                                 formVars, copyVars, progressVars, flashVars>>

HideLoadingCall ==
    \E e \in Elements :
        hideLoading(e) /\ UNCHANGED <<pageVars, toastVars, debounceVars, validateVars,
                                 formVars, copyVars, progressVars, flashVars>>

InitLoading == PageIdle /\ ToastsIdle /\ DebounceIdle /\ LoadingIdle /\ ValidateQuiet /\ FormQuiet /\ CopyQuiet /\ ProgressQuiet /\ FlashQuiet

NextLoading == ShowLoadingCall \/ HideLoadingCall

LoadingSpec == InitLoading /\ [][NextLoading]_vars

-----------------------------------------------------------------------------
(* validateField specification: every field and document it may be given *)

ValidateStep ==
    ValidateCall /\ UNCHANGED <<pageVars, toastVars, debounceVars, loadingVars,
                              formVars, copyVars, progressVars, flashVars>>

InitValidate ==
    PageIdle /\ ToastsIdle /\ DebounceIdle /\ LoadingQuiet /\ ValidateIdle /\ FormQuiet /\ CopyQuiet /\ ProgressQuiet /\ FlashQuiet

NextValidate == ValidateStep

ValidateSpec == InitValidate /\ [][NextValidate]_vars

-----------------------------------------------------------------------------
(* Form specification *)

SubmitStep ==
    Submit /\ UNCHANGED <<pageVars, debounceVars, loadingVars, validateVars,
                          copyVars, progressVars, flashVars>>

BlurStep ==
    \E f \in Fields :
        Blur(f) /\ UNCHANGED <<pageVars, debounceVars, loadingVars, validateVars,
                          copyVars, progressVars, flashVars>>

InputStep ==
    \E f \in Fields, v \in FormValues :
        /\ v # fieldValue[f]
        /\ InputEvent(f, v)
        /\ UNCHANGED <<pageVars, debounceVars, loadingVars, validateVars,
                          copyVars, progressVars, flashVars>>

InitForm ==
    PageIdle /\ ToastsIdle /\ DebounceIdle /\ LoadingQuiet /\ ValidateQuiet
        /\ FormIdle /\ CopyQuiet /\ ProgressQuiet /\ FlashQuiet

NextForm == SubmitStep \/ BlurStep \/ InputStep

FormSpec == InitForm /\ [][NextForm]_vars

-----------------------------------------------------------------------------
(* Copy specification *)

OutsideCopy == <<pageVars, debounceVars, loadingVars, validateVars, formVars,
                 progressVars, flashVars>>

CopyClickStep == CopyClick /\ UNCHANGED OutsideCopy

ResolveStep == ClipboardResolved /\ UNCHANGED OutsideCopy

RejectStep == ClipboardRejected /\ UNCHANGED OutsideCopy

CopyFireStep == \E t \in copyTimers : CopyTimerFire(t) /\ UNCHANGED OutsideCopy

InitCopy ==
    PageIdle /\ ToastsIdle /\ DebounceIdle /\ LoadingQuiet /\ ValidateQuiet
        /\ FormQuiet /\ CopyIdle /\ ProgressQuiet /\ FlashQuiet

NextCopy ==
    \/ CopyClickStep
    \/ ResolveStep
    \/ RejectStep
    \/ CopyFireStep
    \/ \E i \in 1..MaxToasts : ToastDismissClick(i)
    \/ \E i \in 1..MaxToasts : ToastTimerFire(i)
    \/ Advance

CopySpec == InitCopy /\ [][NextCopy]_vars

-----------------------------------------------------------------------------
\* C3: whichever of the dismiss click and the auto-dismiss timer comes first
\* removes the toast from the document; the later one finds it absent and
\* changes nothing in the document; and every toast is eventually absent.
C3_AfterEither ==
    lastToastEv.kind \in {"dismiss", "timer"} =>
        /\ toasts[lastToastEv.i].parent = Null
        /\ lastToastEv.docBefore[lastToastEv.i] = Null =>
               InDocument(toasts) = lastToastEv.docBefore
        /\ \A j \in DOMAIN toasts :
               j # lastToastEv.i => toasts[j].parent = lastToastEv.docBefore[j]

C3_ToastRace ==
    /\ []C3_AfterEither
    /\ \A i \in 1..MaxToasts :
          (Len(toasts) >= i) ~> (Len(toasts) >= i /\ toasts[i].parent = Null)

\* the timer fires after a manual dismiss, and finds the toast absent
C3_Witness ==
    /\ lastToastEv.kind = "timer"
    /\ lastToastEv.docBefore[lastToastEv.i] = Null
    /\ toasts[lastToastEv.i].parent = Null

\* C4: a burst of calls, each less than wait ms after the one before, leads to
\* exactly one invocation of the wrapped function, made wait ms after the
\* burst's last call and with that call's arguments; the function is not
\* invoked while the burst goes on; at most one timer is pending at any time.
C4_Debounce ==
    /\ Cardinality(dbTimers) <= 1
    /\ \A k \in DOMAIN dbInvoked :
          dbInvoked[k].since = DebounceWait /\ dbInvoked[k].args = dbInvoked[k].last
    /\ (dbSince # Never /\ dbSince < DebounceWait) => Len(dbInvoked) = dbBursts - 1
    /\ dbTimers = {} => Len(dbInvoked) = dbBursts

\* a burst of three calls, spread over time, whose invocation has been made
C4_Witness ==
    /\ dbBurstLen >= 3 /\ dbBursts = 1
    /\ Len(dbInvoked) = 1 /\ dbInvoked[1].args = 2
    /\ dbTimers = {}

\* C5: showLoading(el) followed immediately by hideLoading(el) leaves el
\* displaying its original content, enabled, with the side slot cleared.
C5_RoundTrip ==
    ( /\ Len(loadHist) = 2
      /\ loadHist[1].op = "show" /\ loadHist[2].op = "hide"
      /\ loadHist[1].el = loadHist[2].el )
    => LET e == loadHist[1].el
       IN  /\ elContent[e] = loadHist[1].content
           /\ elDisabled[e] = FALSE
           /\ elSlot[e] = Undefined

\* C6: hideLoading(el) on an element whose side slot holds nothing is a no-op:
\* content, disabled flag and side slot are unchanged.
C6_HideWithoutShow ==
    ( /\ loadHist # <<>>
      /\ loadHist[Len(loadHist)].op = "hide"
      /\ loadHist[Len(loadHist)].slot = Undefined )
    => LET h == loadHist[Len(loadHist)]
       IN  /\ elContent[h.el] = h.content
           /\ elDisabled[h.el] = h.disabled
           /\ elSlot[h.el] = h.slot

\* C7: on submit every field of the form is validated; if at least one field
\* fails, the submission is cancelled and exactly one aggregate error toast is
\* shown; if none fails, the submission is not cancelled and no toast is shown.
SomeFieldFails == \E f \in Fields : ~validateField(FieldOf(f), Password1).ok

C7_SubmitValidatesAll ==
    lastSubmit.n = 1 =>
        /\ lastSubmit.validated = Inputs
        /\ lastSubmit.prevented <=> SomeFieldFails
        /\ IF SomeFieldFails
             THEN /\ Len(toasts) = lastSubmit.toastsBefore + 1
                  /\ toasts[Len(toasts)].message = MsgAggregate
                  /\ toasts[Len(toasts)].type = "error"
             ELSE Len(toasts) = lastSubmit.toastsBefore

\* the first field fails and the last one passes: the submit is cancelled
C7_Witness ==
    /\ lastSubmit.n = 1 /\ lastSubmit.prevented
    /\ ~validateField(FieldOf(1), Password1).ok
    /\ validateField(FieldOf(NumFields), Password1).ok
    /\ lastSubmit.validated = Inputs
    /\ Len(toasts) = lastSubmit.toastsBefore + 1

\* the rules that come before the password-confirmation rule
PassesRequiredRule(field) == ~(field.required /\ Trim(field.value) = <<>>)
PassesTypeRule(field) == TypeRule(field, Trim(field.value)) = <<>>

\* C8: a field named password2 that passes the required rule and its type
\* rule, with a password1 field in the document, is valid exactly when its
\* value equals the current value of password1, and is otherwise invalid with
\* the message "Passwords do not match".
C8_PasswordConfirmation ==
    ( /\ vfOut # NotCalled
      /\ vfField.name = "password2"
      /\ PassesRequiredRule(vfField) /\ PassesTypeRule(vfField)
      /\ vfPw1 # <<>> )
    => /\ vfOut.ok <=> (vfField.value = vfPw1[1])
       /\ ~vfOut.ok => vfOut.shown = <<MsgMismatch>>

\* C9: a required field whose trimmed value is empty, whatever its type and
\* name, is invalid with the message "This field is required", and no other
\* message is shown.
C9_RequiredShortCircuit ==
    ( /\ vfOut # NotCalled
      /\ vfField.required
      /\ TrimEnd(TrimStart(vfField.value)) = <<>> )
    => vfOut = [ok |-> FALSE, shown |-> <<MsgRequired>>]

\* a required password2 field holding only spaces, beside a filled password1
C9_Witness ==
    /\ vfOut = [ok |-> FALSE, shown |-> <<MsgRequired>>]
    /\ vfField.required /\ vfField.name = "password2" /\ vfField.type = "tel"
    /\ vfField.value = <<" ", " ">>
    /\ vfPw1 = <<<<"a">>>>

\* C10: after any sequence of successful activations of a copy control, once
\* every pending feedback timer has fired the control displays the content it
\* had before its first activation.
C10_FeedbackRestored ==
    (copyDone > 0 /\ copyWrites = 0 /\ copyTimers = {}) => copyContent = CopyLabel

\* C11: when the clipboard write begun by a copy control is rejected, exactly
\* one toast is added and it is of kind error, the control's content and its
\* set of feedback timers are what they were, and no new write is begun.
C11_RejectedWrite ==
    lastCopyEv.kind = "reject" =>
        /\ Len(toasts) = lastCopyEv.toasts + 1
        /\ toasts[Len(toasts)].type = "error"
        /\ copyContent = lastCopyEv.content
        /\ {t.id : t \in copyTimers} = lastCopyEv.timers
        /\ copyWrites = lastCopyEv.writes - 1

C11_Witness ==
    /\ lastCopyEv.kind = "reject"
    /\ Len(toasts) = lastCopyEv.toasts + 1
    /\ toasts[Len(toasts)].type = "error"
    /\ copyContent = CopyLabel /\ copyTimers = {} /\ copyWrites = 0

\* C12: a click on the button beside a "ref/" input, when that button had no
\* data-copy of its own in the served markup, begins a clipboard write.
C12_AutoWiredCopies ==
    (lastCopyEv.kind = "click" /\ copyReferral /\ ~copyExplicit)
        => copyWrites = lastCopyEv.writes + 1

\* C13: a click whose target is neither inside the mobile-menu toggle nor
\* inside the mobile-menu panel leaves the panel hidden, whatever was clicked
\* and whatever the panel's visibility was.
C13_OutsideClickHidesPanel ==
    (lastClick.n > 0 /\ mmWired /\ lastClick.target.mm = "none") => mmHidden

\* the icon pair agrees with the panel now
Agree == IconsAgree(mmHidden, openIconHidden, closeIconHidden)

\* an outside click has just force-closed an open panel whose icons agreed
ForceClosed ==
    /\ lastClick.n > 0 /\ mmWired /\ mmHasIcons
    /\ lastClick.target.mm = "none" /\ ~lastClick.hiddenBefore /\ mmHidden
    /\ lastClick.agreeBefore

\* a click on the toggle has just found the icon pair in disagreement
ToggledFromDisagreement ==
    /\ lastClick.n > 0 /\ mmWired /\ mmHasIcons
    /\ lastClick.target.mm = "toggle" /\ ~lastClick.agreeBefore

\* C14: after an outside click force-closes an open panel the icon
\* pair disagrees with the panel, and the next click on the toggle brings the
\* pair back into agreement.
C14_ToggleRestoresAgreement ==
    /\ ForceClosed => ~Agree
    /\ ToggledFromDisagreement => Agree

\* C20: a click on the mobile-menu toggle flips the panel's visibility exactly
\* once; the document-level listener that runs next for the same click does
\* not hide the panel again.
C20_ToggleFlipsOnce ==
    (lastClick.n > 0 /\ mmWired /\ lastClick.target.mm = "toggle")
        => mmHidden = ~lastClick.hiddenBefore

C20_Witness ==
    /\ lastClick.n > 0 /\ mmWired /\ lastClick.target.mm = "toggle"
    /\ lastClick.hiddenBefore /\ ~mmHidden

\* what validateField finds for field f in the current document
Verdict(f) == validateField(FieldOf(f), Password1)

InvalidStyled(f) == "border-red-500" \in fieldClasses[f]

\* C15: in every form layout, right after a submit each field that failed is
\* styled invalid and its parent's message element shows that field's own
\* message, each field that passed is not styled invalid and, unless a failed
\* field shares its parent, has no message element; and right after a field's
\* error is cleared it has neither the styling nor a message element.
C15_PerFieldErrors ==
    /\ lastSubmit.n = 1 =>
          \A f \in Fields :
              IF Verdict(f).ok
                THEN /\ ~InvalidStyled(f)
                     /\ (\A g \in Fields : ParentOf(g) = ParentOf(f) => Verdict(g).ok)
                           => parentErr[ParentOf(f)] = NoErr
                ELSE /\ InvalidStyled(f)
                     /\ parentErr[ParentOf(f)] = Verdict(f).shown[1]
    /\ \A f \in Fields :
          lastSubmit.cleared = f =>
              (~InvalidStyled(f) /\ parentErr[ParentOf(f)] = NoErr)

\* loading: busy indicator displayed, interaction disabled, side slot holding
\* the content displayed before loading began
IsLoading(e) ==
    elContent[e] = Spinner /\ elDisabled[e] /\ elSlot[e] = elOriginal[e]

\* normal: original content displayed, interaction enabled, side slot empty
IsNormal(e) ==
    elContent[e] = elOriginal[e] /\ ~elDisabled[e] /\ elSlot[e] = Undefined

\* C16: after any sequence of showLoading and hideLoading calls, the element
\* the last call was made on is either loading or normal.
C16_LoadingOrNormal ==
    loadHist # <<>> =>
        LET e == loadHist[Len(loadHist)].el
        IN  IsLoading(e) \/ IsNormal(e)

\* the width the bar is to end at: its data-progress, or "0" without one
ExpectedWidth ==
    IF pbTarget = <<>> \/ pbTarget = <<<<>>>> THEN <<"0", "%">>
    ELSE pbTarget[1] \o <<"%">>

\* C17: every observer entry in which the bar is intersecting sets its width
\* to 0%, a repeated one included; and once the bar has been intersecting and
\* no reveal timer is pending, its width is its target percentage, "0" when
\* data-progress is absent.
C17_ProgressReveal ==
    /\ (lastPbEv.kind = "entry" /\ lastPbEv.isIntersecting)
          => pbWidth = <<"0", "%">>
    /\ (pbShown > 0 /\ pbTimers = {}) => pbWidth = ExpectedWidth

C17_Witness ==
    /\ pbShown >= 2 /\ pbTimers = {}
    /\ lastPbEv.kind = "timer"
    /\ pbWidth = <<"7", "5", "%">>

\* the kind a toast is styled as for a data-level: the level itself when it
\* is one of the four kinds, info otherwise
StyledAs(level) ==
    IF level # <<>> /\ level[1] \in ToastKinds THEN level[1] ELSE "info"

\* C18: once initializeToasts has run, no .django-message element is left in
\* the document, and the toasts are, in document order, one per element the
\* page came with, each showing that element's text and styled by its level,
\* as info when the level is absent or unknown.
C18_FlashToasts ==
    flashStarted =>
        /\ flash = <<>>
        /\ Len(toasts) = Len(flashLoaded)
        /\ \A i \in DOMAIN flashLoaded :
              /\ ShownText(toasts[i].message) = flashLoaded[i].text
              /\ toasts[i].classes = getToastClasses(StyledAs(flashLoaded[i].level))
              /\ toasts[i].icon = getToastIcon(StyledAs(flashLoaded[i].level))

\* C19: when the clipboard write begun by a copy control succeeds, the toast
\* that is shown is of kind info.
C19_ConfirmationIsInfo ==
    lastCopyEv.kind = "resolve" => toasts[lastCopyEv.toasts + 1].type = "info"

\* C19 amended: when the clipboard write begun by a copy control succeeds, the
\* toast that is shown is of kind success.
C19_ConfirmationIsSuccess ==
    lastCopyEv.kind = "resolve" =>
        /\ Len(toasts) = lastCopyEv.toasts + 1
        /\ toasts[lastCopyEv.toasts + 1].type = "success"

C19_Witness ==
    /\ lastCopyEv.kind = "resolve"
    /\ toasts[lastCopyEv.toasts + 1].type = "success"
    /\ toasts[lastCopyEv.toasts + 1].message = "Copied to clipboard!"
====
